---- MODULE Spec2Model ----
(***************************************************************************)
(* The driver-plugin harness of src/main.go as a state machine.            *)
(*                                                                         *)
(* src/main.go holds two programs.  Variant 1 (lines 20-92) launches the   *)
(* plugin, configures it and starts one task.  Variant 2 (lines 195-285)   *)
(* additionally builds an allocation directory and a task environment     *)
(* (MkAllocDir, lines 312-396; SetEnvvars, lines 399-429), starts the     *)
(* task, and then polls its state in a loop.                               *)
(*                                                                         *)
(* Go semantics the model keeps:                                           *)
(*   - defer pushes a call on a stack that runs, last in first out, when   *)
(*     the function returns or panics;                                     *)
(*   - log.Fatal prints and calls os.Exit(1): the process ends at once    *)
(*     and NO deferred call runs;                                          *)
(*   - reading a field through a nil pointer panics.                       *)
(* Every call into a library (go-plugin, the driver RPC client, allocdir,  *)
(* logmon) is an input: its result is drawn from the results its          *)
(* signature allows.                                                       *)
(***************************************************************************)
EXTENDS Integers, Sequences, FiniteSets, TLC

\* Number of distinct values of the observation loop's iteration counter.
MaxPolls == 2

VARIABLES
    variant,      \* 1: main of lines 20-92; 2: main of lines 195-285
    goos,         \* runtime.GOOS (line 366)
    enableLogs,   \* MkAllocDir's enableLogs parameter (line 312)
    hostEnv,      \* the host process environment read by SetHostEnvvars
    callerEnv,    \* t.Env as the caller handed it to MkAllocDir
    pc,           \* position of the main goroutine
    exitKind,     \* how the process ended: "none", "fatal", "panic", "return"
    panicking,    \* a panic is unwinding the deferred calls
    defers,       \* main's stack of deferred calls, last element on top
    running,      \* statements left of the deferred closure being run
    cleanupFn,    \* which closure MkAllocDir returned: "none", "withLogs", "noLogs"
    calls,        \* history: every library call made so far, with its result
    childLive,    \* the plugin child process is running
    dirExists,    \* the temporary allocation root exists on disk
    allocBuilt,   \* allocDir.Build() has built the skeleton
    taskDirBuilt, \* how taskDir.Build built the task dir: "no", "minimal", "chroot"
    fsi,          \* caps.FSIsolation (line 332), "unset" before
    builder,      \* the taskenv.Builder's recorded fields
    t,            \* the drivers.TaskConfig handed to MkAllocDir
    lmRunning,    \* the log monitor is copying
    th,           \* StartTask's handle: "unset", "nil", "handle"
    taskRunning,  \* the remote driver runs the workload
    polls         \* observation loop iterations, modulo MaxPolls + 1

vars == <<variant, goos, enableLogs, hostEnv, callerEnv, pc, exitKind, panicking, defers,
          running, cleanupFn, calls, childLive, dirExists, allocBuilt,
          taskDirBuilt, fsi, builder, t, lmRunning, th, taskRunning, polls>>

----------------------------------------------------------------------------
(* Values                                                                  *)

\* Name: "nc-demo" (line 253)
TaskName == "nc-demo"

\* ioutil.TempDir("", "nomad_driver_harness-") (line 313): a fresh directory
\* under the default temporary directory.
TempDirPath == "/tmp/nomad_driver_harness-1"

\* uuid.Generate()[:8] (line 367)
PipeId == "0a1b2c3d"

\* filepath.Join of two elements
JoinPath(a, b) == a \o "/" \o b

\* allocdir.SharedAllocContainerPath, TaskLocalContainerPath and
\* TaskSecretsContainerPath, the container-canonical paths (lines 415-417)
SharedAllocContainerPath == "/alloc"
TaskLocalContainerPath == "/local"
TaskSecretsContainerPath == "/secrets"

FSIsolationNone == "none"
FSIsolationChroot == "chroot"
FSIsolationImage == "image"
FSIsolations == {FSIsolationNone, FSIsolationChroot, FSIsolationImage}

\* A Go map[string]string that may be nil.
EmptyMap == [k \in {} |-> ""]
NilEnv == [isNil |-> TRUE, m |-> EmptyMap]
MkEnv(f) == [isNil |-> FALSE, m |-> f]

\* m with key k set to v (Go: m[k] = v)
Put(m, k, v) == (k :> v) @@ m

\* The Env a caller may put in the TaskConfig before MkAllocDir: nil (as main
\* does, lines 251-256), empty, or holding keys that do or do not collide with
\* derived keys.
CallerEnvs ==
    { NilEnv,
      MkEnv(EmptyMap),
      MkEnv(Put(EmptyMap, "NOMAD_TASK_DIR", "/custom/task")),
      MkEnv(Put(Put(EmptyMap, "FOO", "bar"), "PATH", "/opt/bin")),
      MkEnv(Put(EmptyMap, "WORKDIR", "${NOMAD_TASK_DIR}")) }

\* Host environments the harness may be started in.
HostEnvs ==
    { EmptyMap,
      Put(EmptyMap, "PATH", "/usr/bin"),
      Put(Put(EmptyMap, "PATH", "/usr/bin"), "VAULT_TOKEN", "s3cr3t"),
      Put(Put(EmptyMap, "PATH", "/usr/bin"), "NOMAD_TASK_DIR", "/host/override") }

\* basicResources.NomadResources (lines 173-181): MemoryMB 256, CpuShares 250.
BasicMemoryMB == 256
BasicCpuShares == 250

\* A *drivers.Resources that may be nil, with its NomadResources.
NilResources == [isNil |-> TRUE, NomadResources |-> [CpuShares |-> 0, MemoryMB |-> 0]]
basicResources ==
    [isNil |-> FALSE,
     NomadResources |-> [CpuShares |-> BasicCpuShares, MemoryMB |-> BasicMemoryMB]]

\* The Resources a caller may put in the TaskConfig: basicResources as main
\* does (line 255), or none.
CallerResources == {basicResources, NilResources}

\* mock.Node() (line 349), as far as the environment reads it.
MockNode == [Datacenter |-> "dc1"]

\* mock.Alloc() (line 344), as far as the environment reads it: its ID and
\* the resources allocated to its own task, "web".
MockAlloc ==
    [ ID    |-> "mock-alloc-id",
      Tasks |-> [n \in {"web"} |-> [CpuShares |-> 500, MemoryMB |-> 256]] ]

\* config.DefaultEnvDenylist (line 425) as the comma-separated text it is,
\* one element per name or separator.
DefaultEnvDenylist == <<"CONSUL_TOKEN", ",", "VAULT_TOKEN", ",", "AWS_SECRET_ACCESS_KEY">>

\* strings.Split(s, ",") (line 423): the pieces between separators.
RECURSIVE SplitFrom(_, _, _)
SplitFrom(s, i, piece) ==
    IF i > Len(s) THEN <<piece>>
    ELSE IF s[i] = "," THEN <<piece>> \o SplitFrom(s, i + 1, "")
    ELSE SplitFrom(s, i + 1, piece \o s[i])
StringsSplit(s) == SplitFrom(s, 1, "")

----------------------------------------------------------------------------
(* MkAllocDir's pure parts                                                 *)

\* allocDir.NewTaskDir(t.Name) (line 325): the per-task view of the tree.
NewTaskDir(root, name) ==
    [ Dir            |-> JoinPath(root, name),
      SharedAllocDir |-> JoinPath(root, "alloc"),
      LocalDir       |-> JoinPath(JoinPath(root, name), "local"),
      SecretsDir     |-> JoinPath(JoinPath(root, name), "secrets"),
      LogDir         |-> JoinPath(JoinPath(root, "alloc"), "logs") ]

\* The builder variable before line 349: no builder yet.
NoBuilder ==
    [ region               |-> "",
      datacenter           |-> "",
      allocId              |-> "",
      taskName             |-> "",
      cpuLimit             |-> 0,
      memLimit             |-> 0,
      envvars              |-> EmptyMap,
      clientTaskRoot       |-> "",
      clientSharedAllocDir |-> "",
      clientTaskLocalDir   |-> "",
      clientTaskSecretsDir |-> "",
      allocDir             |-> "",
      localDir             |-> "",
      secretsDir           |-> "",
      hostEnv              |-> EmptyMap ]

\* task := &structs.Task{Name: t.Name, Env: t.Env} (lines 338-341)
TaskOf(tc) == [Name |-> tc.Name, Env |-> tc.Env]

\* Lines 344-347: the mock allocation, given the task's NomadResources under
\* the task's name when t.Resources is not nil.
AllocOf(tc) ==
    IF ~tc.Resources.isNil
    THEN [MockAlloc EXCEPT !.Tasks = Put(@, tc.Name, tc.Resources.NomadResources)]
    ELSE MockAlloc

\* taskenv.NewBuilder(mock.Node(), alloc, task, "global") (line 349): the
\* builder keeps the region, the node's datacenter, the allocation's ID, the
\* task's name and Env, and the limits allocated to a task of that name
\* (zero when the allocation has none); no path and no host variable yet.
NewBuilder(node, alloc, task, region) ==
    [ NoBuilder EXCEPT
        !.region     = region,
        !.datacenter = node.Datacenter,
        !.allocId    = alloc.ID,
        !.taskName   = task.Name,
        !.cpuLimit   = IF task.Name \in DOMAIN alloc.Tasks
                       THEN alloc.Tasks[task.Name].CpuShares ELSE 0,
        !.memLimit   = IF task.Name \in DOMAIN alloc.Tasks
                       THEN alloc.Tasks[task.Name].MemoryMB ELSE 0,
        !.envvars    = task.Env.m ]

\* A slip in the switch of lines 407-418: chroot treated like no isolation.
TaskVisiblePaths_chrootAsHost(f, taskDir) ==
    IF f \in {FSIsolationNone, FSIsolationChroot}
    THEN [allocDir |-> taskDir.SharedAllocDir, localDir |-> taskDir.LocalDir,
          secretsDir |-> taskDir.SecretsDir]
    ELSE [allocDir |-> SharedAllocContainerPath, localDir |-> TaskLocalContainerPath,
          secretsDir |-> TaskSecretsContainerPath]

\* The switch of lines 407-418: the paths as the task will see them.
TaskVisiblePaths(f, taskDir) ==
    CASE f = FSIsolationNone ->
           [allocDir |-> taskDir.SharedAllocDir, localDir |-> taskDir.LocalDir,
            secretsDir |-> taskDir.SecretsDir]
      [] OTHER ->
           [allocDir |-> SharedAllocContainerPath, localDir |-> TaskLocalContainerPath,
            secretsDir |-> TaskSecretsContainerPath]

\* envBuilder.SetHostEnvvars(filter): the host environment without the names
\* in filter (exact match).
SetHostEnvvars(host, filter) ==
    LET denied == {filter[i] : i \in DOMAIN filter}
    IN  [k \in (DOMAIN host) \ denied |-> host[k]]

\* A slip in line 421: the host variables copied in every isolation mode.
HostEnvvarsFor_imageToo(f, host) ==
    SetHostEnvvars(host, StringsSplit(DefaultEnvDenylist))

\* Lines 420-428: host variables are copied for non-image isolation only.
HostEnvvarsFor(f, host) ==
    IF f # FSIsolationImage
    THEN SetHostEnvvars(host, StringsSplit(DefaultEnvDenylist))
    ELSE EmptyMap

\* SetEnvvars (lines 399-429)
SetEnvvars(envBuilder, f, taskDir, host) ==
    LET seen == TaskVisiblePaths(f, taskDir)
    IN  [ envBuilder EXCEPT
            !.clientTaskRoot       = taskDir.Dir,
            !.clientSharedAllocDir = taskDir.SharedAllocDir,
            !.clientTaskLocalDir   = taskDir.LocalDir,
            !.clientTaskSecretsDir = taskDir.SecretsDir,
            !.allocDir             = seen.allocDir,
            !.localDir             = seen.localDir,
            !.secretsDir           = seen.secretsDir,
            !.hostEnv              = HostEnvvarsFor(f, host) ]

\* The name a value of the form ${NAME} refers to, "" for any other value.
\* The values of the model are either plain text or one whole reference.
RefName(v) ==
    CASE v = "${NOMAD_TASK_DIR}" -> "NOMAD_TASK_DIR"
      [] v = "${NOMAD_ALLOC_DIR}" -> "NOMAD_ALLOC_DIR"
      [] v = "${NOMAD_REGION}" -> "NOMAD_REGION"
      [] OTHER -> ""

\* The interpolation Build applies: a reference to a variable of env is
\* replaced by its value, anything else is left as it is.
ReplaceEnv(v, env) ==
    IF RefName(v) # "" /\ RefName(v) \in DOMAIN env THEN env[RefName(v)] ELSE v

\* Build's copy of the host variables into the map: each value interpolated,
\* written over what the map holds.
OverlayHost(env, host) ==
    [k \in DOMAIN host |-> ReplaceEnv(host[k], env)] @@ env

\* Build's copy of the task's own Env into the map: each key and value
\* interpolated, written over what the map holds.
OverlayTask(env, envvars) ==
    LET keyOf(k) == ReplaceEnv(k, env)
        written == {keyOf(k) : k \in DOMAIN envvars}
    IN  [x \in written |->
            ReplaceEnv(envvars[CHOOSE k \in DOMAIN envvars : keyOf(k) = x], env)] @@ env

\* The variables Build derives from the paths and from NewBuilder's arguments.
BuilderOwnVars(b) ==
    LET dirs == Put(Put(Put(EmptyMap, "NOMAD_ALLOC_DIR", b.allocDir),
                        "NOMAD_TASK_DIR", b.localDir),
                    "NOMAD_SECRETS_DIR", b.secretsDir)
        ids  == Put(Put(Put(Put(dirs, "NOMAD_TASK_NAME", b.taskName),
                            "NOMAD_ALLOC_ID", b.allocId),
                        "NOMAD_REGION", b.region),
                    "NOMAD_DC", b.datacenter)
        cpu  == IF b.cpuLimit # 0 THEN Put(ids, "NOMAD_CPU_LIMIT", ToString(b.cpuLimit))
                ELSE ids
    IN  IF b.memLimit # 0 THEN Put(cpu, "NOMAD_MEMORY_LIMIT", ToString(b.memLimit))
        ELSE cpu

\* taskBuilder.Build() followed by taskEnv.Map() (lines 352, 354): the
\* builder's own variables, then the host variables over them, then the
\* task's own Env over both.
BuilderBuild(b) ==
    OverlayTask(OverlayHost(BuilderOwnVars(b), b.hostEnv), b.envvars)

\* The loop of lines 356-360 over keys, the keys of the derived map: a key
\* env does not hold yet is added with its derived value, a key env holds
\* keeps env's value.
FillMissing(env, derived, keys) ==
    [k \in keys \ (DOMAIN env) |-> derived[k]] @@ env

\* A slip in line 357: the derived value written whether or not the key is there.
MergeEnv_derivedWins(env, derived) ==
    MkEnv([k \in (DOMAIN env.m) \cup (DOMAIN derived) |->
              IF k \in DOMAIN derived THEN derived[k] ELSE env.m[k]])

\* Lines 353-361: t.Env after the merge.
MergeEnv(env, derived) ==
    IF env.isNil THEN MkEnv(derived)
    ELSE MkEnv(FillMissing(env.m, derived, DOMAIN derived))

----------------------------------------------------------------------------
(* Helpers of the actions                                                  *)

\* One entry of the history of library calls.
Call(op, res) == [op |-> op, res |-> res]

\* A slip in the teardown: the deferred calls run in the order they were
\* registered, first in first out.
Push_firstInFirstOut(stack, f) == <<f>> \o stack

\* defer f(): f goes on top of the stack of deferred calls.
Push(stack, f) == Append(stack, f)
Top(stack) == stack[Len(stack)]
Pop(stack) == SubSeq(stack, 1, Len(stack) - 1)


\* log.Fatal(err): os.Exit(1) at once; the deferred calls are left unrun.
LogFatal == pc' = "Exited" /\ exitKind' = "fatal"

\* The statement completed; control moves on.
Goto(next) == pc' = next /\ UNCHANGED exitKind

----------------------------------------------------------------------------
(* Initial state: the process has started; nothing is launched or built.   *)

Init ==
    /\ variant \in {1, 2}
    /\ goos \in {"linux", "windows"}
    /\ enableLogs \in BOOLEAN
    /\ hostEnv \in HostEnvs
    /\ pc = "NewClient"
    /\ exitKind = "none"
    /\ panicking = FALSE
    /\ defers = <<>>
    /\ running = <<>>
    /\ cleanupFn = "none"
    /\ calls = <<>>
    /\ childLive = FALSE
    /\ dirExists = FALSE
    /\ allocBuilt = FALSE
    /\ taskDirBuilt = "no"
    /\ fsi = "unset"
    /\ builder = NoBuilder
    /\ callerEnv \in CallerEnvs
    /\ \E r \in CallerResources :
          t = [Name |-> TaskName, AllocDir |-> "", Env |-> callerEnv,
               Resources |-> r, StdoutPath |-> "", StderrPath |-> ""]
    /\ lmRunning = FALSE
    /\ th = "unset"
    /\ taskRunning = FALSE
    /\ polls = 0

----------------------------------------------------------------------------
(* main, up to StartTask                                                   *)

\* plugin.NewClient(...) and defer client.Kill() (lines 41-55, 208-222).
\* NewClient only records the configuration; the child is not spawned yet.
NewClient ==
    /\ pc = "NewClient"
    /\ defers' = Push(defers, "client.Kill")
    /\ Goto("Client")
    /\ UNCHANGED <<variant, goos, enableLogs, hostEnv, callerEnv, panicking, running,
                   cleanupFn, calls, childLive, dirExists, allocBuilt,
                   taskDirBuilt, fsi, builder, t, lmRunning, th, taskRunning, polls>>

\* client.Client() (lines 59-62, 224-227): spawns the child and handshakes,
\* then opens the RPC client.  A spawn or handshake failure leaves no child;
\* a failure to open the RPC client leaves the spawned child running.
Client ==
    /\ pc = "Client"
    /\ \E res \in {"ok", "spawn_err", "rpc_err"} :
          /\ calls' = Append(calls, Call("Client", res))
          /\ childLive' = (res # "spawn_err")
          /\ IF res = "ok" THEN Goto("Dispense") ELSE LogFatal
    /\ UNCHANGED <<variant, goos, enableLogs, hostEnv, callerEnv, panicking, defers, running,
                   cleanupFn, dirExists, allocBuilt, taskDirBuilt, fsi, builder,
                   t, lmRunning, th, taskRunning, polls>>

\* rpcClient.Dispense(base.PluginTypeDriver) (lines 64-67, 229-232)
Dispense ==
    /\ pc = "Dispense"
    /\ \E res \in {"ok", "err"} :
          /\ calls' = Append(calls, Call("Dispense", res))
          /\ IF res = "ok" THEN Goto("SetConfig") ELSE LogFatal
    /\ UNCHANGED <<variant, goos, enableLogs, hostEnv, callerEnv, panicking, defers, running,
                   cleanupFn, childLive, dirExists, allocBuilt, taskDirBuilt, fsi,
                   builder, t, lmRunning, th, taskRunning, polls>>

\* A slip in lines 245-247: the error of SetConfig not checked.
SetConfig_errIgnored ==
    /\ pc = "SetConfig"
    /\ \E res \in {"ok", "err"} :
          /\ calls' = Append(calls, Call("SetConfig", res))
          /\ Goto(IF variant = 1 THEN "Encode" ELSE "TempDir")
    /\ UNCHANGED <<variant, goos, enableLogs, hostEnv, callerEnv, panicking, defers, running,
                   cleanupFn, childLive, dirExists, allocBuilt, taskDirBuilt, fsi,
                   builder, t, lmRunning, th, taskRunning, polls>>

\* A slip in lines 258-262: the call of MkAllocDir left out, so that control
\* goes from SetConfig to the encoding of the task.
SetConfig_noMkAllocDir ==
    /\ pc = "SetConfig"
    /\ \E res \in {"ok", "err"} :
          /\ calls' = Append(calls, Call("SetConfig", res))
          /\ IF res = "ok" THEN Goto("Encode") ELSE LogFatal
    /\ UNCHANGED <<variant, goos, enableLogs, hostEnv, callerEnv, panicking, defers, running,
                   cleanupFn, childLive, dirExists, allocBuilt, taskDirBuilt, fsi,
                   builder, t, lmRunning, th, taskRunning, polls>>

\* dClient.SetConfig(baseConfig) (lines 70-75, 242-247).  Variant 1 goes on to
\* build and encode the task (lines 78-86); variant 2 builds the task and
\* calls MkAllocDir (lines 250-258).
SetConfig ==
    /\ pc = "SetConfig"
    /\ \E res \in {"ok", "err"} :
          /\ calls' = Append(calls, Call("SetConfig", res))
          /\ IF res = "ok" THEN Goto(IF variant = 1 THEN "Encode" ELSE "TempDir")
             ELSE LogFatal
    /\ UNCHANGED <<variant, goos, enableLogs, hostEnv, callerEnv, panicking, defers, running,
                   cleanupFn, childLive, dirExists, allocBuilt, taskDirBuilt, fsi,
                   builder, t, lmRunning, th, taskRunning, polls>>

----------------------------------------------------------------------------
(* MkAllocDir (lines 312-396), called at line 258.  Each `return nil, err`  *)
(* is followed in main by log.Fatal(err) (lines 259-261).                  *)

\* ioutil.TempDir (lines 313-317)
TempDir ==
    /\ pc = "TempDir"
    /\ \E res \in {"ok", "err"} :
          /\ calls' = Append(calls, Call("TempDir", res))
          /\ IF res = "ok"
             THEN /\ dirExists' = TRUE
                  /\ t' = [t EXCEPT !.AllocDir = TempDirPath]
                  /\ Goto("AllocDirBuild")
             ELSE /\ UNCHANGED <<dirExists, t>>
                  /\ LogFatal
    /\ UNCHANGED <<variant, goos, enableLogs, hostEnv, callerEnv, panicking, defers, running,
                   cleanupFn, childLive, allocBuilt, taskDirBuilt, fsi, builder,
                   lmRunning, th, taskRunning, polls>>

\* allocdir.NewAllocDir(h.logger, dir).Build() (lines 319-323)
AllocDirBuild ==
    /\ pc = "AllocDirBuild"
    /\ \E res \in {"ok", "err"} :
          /\ calls' = Append(calls, Call("AllocDir.Build", res))
          /\ allocBuilt' = (res = "ok")
          /\ IF res = "ok" THEN Goto("Capabilities") ELSE LogFatal
    /\ UNCHANGED <<variant, goos, enableLogs, hostEnv, callerEnv, panicking, defers, running,
                   cleanupFn, childLive, dirExists, taskDirBuilt, fsi, builder, t,
                   lmRunning, th, taskRunning, polls>>

\* h.Capabilities() and fsi := caps.FSIsolation (lines 327-332)
Capabilities ==
    /\ pc = "Capabilities"
    /\ \E res \in FSIsolations \cup {"err"} :
          /\ calls' = Append(calls, Call("Capabilities", res))
          /\ IF res # "err"
             THEN fsi' = res /\ Goto("TaskDirBuild")
             ELSE UNCHANGED fsi /\ LogFatal
    /\ UNCHANGED <<variant, goos, enableLogs, hostEnv, callerEnv, panicking, defers, running,
                   cleanupFn, childLive, dirExists, allocBuilt, taskDirBuilt,
                   builder, t, lmRunning, th, taskRunning, polls>>

\* A slip in line 333: the chroot built for every isolating mode.
BuildChroot_anyIsolation(f) == f # FSIsolationNone

\* The first argument of taskDir.Build (line 333)
BuildChroot(f) == f = FSIsolationChroot

\* taskDir.Build(fsi == drivers.FSIsolationChroot, config.DefaultChrootEnv)
\* (lines 333-336)
TaskDirBuild ==
    /\ pc = "TaskDirBuild"
    /\ \E res \in {"ok", "err"} :
          /\ calls' = Append(calls, Call("TaskDir.Build", res))
          /\ IF res = "ok"
             THEN /\ taskDirBuilt' = IF BuildChroot(fsi) THEN "chroot" ELSE "minimal"
                  /\ Goto("BuildEnv")
             ELSE /\ UNCHANGED taskDirBuilt
                  /\ LogFatal
    /\ UNCHANGED <<variant, goos, enableLogs, hostEnv, callerEnv, panicking, defers, running,
                   cleanupFn, childLive, dirExists, allocBuilt, fsi, builder, t,
                   lmRunning, th, taskRunning, polls>>

\* Lines 338-361: the task and the allocation are prepared, the builder is
\* created from them and filled by SetEnvvars, the environment is built and
\* merged into t.Env.
BuildEnv ==
    /\ pc = "BuildEnv"
    /\ builder' = SetEnvvars(NewBuilder(MockNode, AllocOf(t), TaskOf(t), "global"),
                             fsi, NewTaskDir(t.AllocDir, t.Name), hostEnv)
    /\ t' = [t EXCEPT !.Env = MergeEnv(t.Env, BuilderBuild(builder'))]
    /\ calls' = Append(calls, Call("SetEnvvars", "ok"))
    /\ Goto("Logmon")
    /\ UNCHANGED <<variant, goos, enableLogs, hostEnv, callerEnv, panicking, defers, running,
                   cleanupFn, childLive, dirExists, allocBuilt,
                   taskDirBuilt, fsi, lmRunning, th, taskRunning, polls>>

\* The sink paths of lines 366-373.
StdoutPathFor(os, name, logDir) ==
    IF os = "windows" THEN "//./pipe/" \o name \o "-" \o PipeId \o ".stdout"
    ELSE JoinPath(logDir, "." \o name \o ".stdout.fifo")
StderrPathFor(os, name, logDir) ==
    IF os = "windows" THEN "//./pipe/" \o name \o "-" \o PipeId \o ".stderr"
    ELSE JoinPath(logDir, "." \o name \o ".stderr.fifo")

\* A slip in lines 258-261: the error MkAllocDir returns not checked in main.
LogmonStart_errIgnored ==
    /\ pc = "Logmon"
    /\ enableLogs
    /\ t' = [t EXCEPT
               !.StdoutPath = StdoutPathFor(goos, t.Name, NewTaskDir(t.AllocDir, t.Name).LogDir),
               !.StderrPath = StderrPathFor(goos, t.Name, NewTaskDir(t.AllocDir, t.Name).LogDir)]
    /\ \E res \in {"ok", "err"} :
          /\ calls' = Append(calls, Call("lm.Start", res))
          /\ lmRunning' = (res = "ok")
          /\ IF res = "ok"
             THEN /\ cleanupFn' = "withLogs"
                  /\ defers' = Push(defers, "cleanup")
             ELSE UNCHANGED <<cleanupFn, defers>>
          /\ Goto("Encode")
    /\ UNCHANGED <<variant, goos, enableLogs, hostEnv, callerEnv, panicking, running,
                   childLive, dirExists, allocBuilt, taskDirBuilt, fsi, builder,
                   th, taskRunning, polls>>

\* A slip in lines 383-385: the cleanup closure returned together with the
\* error of lm.Start.
LogmonStart_cleanupWithErr ==
    /\ pc = "Logmon"
    /\ enableLogs
    /\ t' = [t EXCEPT
               !.StdoutPath = StdoutPathFor(goos, t.Name, NewTaskDir(t.AllocDir, t.Name).LogDir),
               !.StderrPath = StderrPathFor(goos, t.Name, NewTaskDir(t.AllocDir, t.Name).LogDir)]
    /\ \E res \in {"ok", "err"} :
          /\ calls' = Append(calls, Call("lm.Start", res))
          /\ lmRunning' = (res = "ok")
          /\ cleanupFn' = "withLogs"
          /\ IF res = "ok"
             THEN /\ defers' = Push(defers, "cleanup")
                  /\ Goto("Encode")
             ELSE /\ UNCHANGED defers
                  /\ LogFatal
    /\ UNCHANGED <<variant, goos, enableLogs, hostEnv, callerEnv, panicking, running,
                   childLive, dirExists, allocBuilt, taskDirBuilt, fsi, builder,
                   th, taskRunning, polls>>

\* Lines 363-391 with enableLogs, and main's defer cleanup() (line 262): the
\* sink paths are set, the log monitor is started, and on success the closure
\* of lines 387-390 is returned and deferred.
LogmonStart ==
    /\ pc = "Logmon"
    /\ enableLogs
    /\ t' = [t EXCEPT
               !.StdoutPath = StdoutPathFor(goos, t.Name, NewTaskDir(t.AllocDir, t.Name).LogDir),
               !.StderrPath = StderrPathFor(goos, t.Name, NewTaskDir(t.AllocDir, t.Name).LogDir)]
    /\ \E res \in {"ok", "err"} :
          /\ calls' = Append(calls, Call("lm.Start", res))
          /\ lmRunning' = (res = "ok")
          /\ IF res = "ok"
             THEN /\ cleanupFn' = "withLogs"
                  /\ defers' = Push(defers, "cleanup")
                  /\ Goto("Encode")
             ELSE /\ UNCHANGED <<cleanupFn, defers>>
                  /\ LogFatal
    /\ UNCHANGED <<variant, goos, enableLogs, hostEnv, callerEnv, panicking, running,
                   childLive, dirExists, allocBuilt, taskDirBuilt, fsi, builder,
                   th, taskRunning, polls>>

\* Lines 393-395 without enableLogs, and main's defer cleanup() (line 262).
LogmonSkip ==
    /\ pc = "Logmon"
    /\ ~enableLogs
    /\ cleanupFn' = "noLogs"
    /\ defers' = Push(defers, "cleanup")
    /\ Goto("Encode")
    /\ UNCHANGED <<variant, goos, enableLogs, hostEnv, callerEnv, panicking, running, calls,
                   childLive, dirExists, allocBuilt, taskDirBuilt, fsi, builder, t,
                   lmRunning, th, taskRunning, polls>>


----------------------------------------------------------------------------
(* main, from the encoding of the driver configuration on                  *)

\* task.EncodeConcreteDriverConfig(&taskCfg) (lines 86, 264).  The call
\* returns an error, which the statement discards: control reaches StartTask
\* whatever the result.
Encode ==
    /\ pc = "Encode"
    /\ \E res \in {"ok", "err"} :
          calls' = Append(calls, Call("Encode", res))
    /\ Goto("StartTask")
    /\ UNCHANGED <<variant, goos, enableLogs, hostEnv, callerEnv, panicking, defers,
                   running, cleanupFn, childLive, dirExists, allocBuilt,
                   taskDirBuilt, fsi, builder, t, lmRunning, th, taskRunning, polls>>

\* A slip in lines 266-277: the StopTask closure deferred before the error of
\* StartTask is looked at, and the error answered by a return from main.
StartTask_stopDeferredFirst ==
    /\ pc = "StartTask"
    /\ \E res \in {"ok", "ok_nil_handle", "err"} :
          /\ calls' = Append(calls, Call("StartTask", res))
          /\ defers' = IF variant = 1 THEN defers ELSE Push(defers, "stopTask")
          /\ IF res = "err"
             THEN /\ Goto("Unwind")
                  /\ UNCHANGED <<th, taskRunning>>
             ELSE /\ taskRunning' = TRUE
                  /\ IF variant = 1
                     THEN /\ Goto("Unwind")
                          /\ UNCHANGED th
                     ELSE /\ th' = IF res = "ok" THEN "handle" ELSE "nil"
                          /\ Goto("Observe")
    /\ UNCHANGED <<variant, goos, enableLogs, hostEnv, callerEnv, panicking, running,
                   cleanupFn, childLive, dirExists, allocBuilt, taskDirBuilt, fsi,
                   builder, t, lmRunning, polls>>

\* A slip in the place of line 222: client.Kill() deferred (again) after the
\* StopTask closure, so that it is the first deferred call to run.
StartTask_killDeferredLast ==
    /\ pc = "StartTask"
    /\ \E res \in {"ok", "ok_nil_handle", "err"} :
          /\ calls' = Append(calls, Call("StartTask", res))
          /\ IF res = "err"
             THEN /\ LogFatal
                  /\ UNCHANGED <<th, taskRunning, defers>>
             ELSE /\ taskRunning' = TRUE
                  /\ IF variant = 1
                     THEN /\ Goto("Unwind")
                          /\ UNCHANGED <<th, defers>>
                     ELSE /\ th' = IF res = "ok" THEN "handle" ELSE "nil"
                          /\ defers' = Push(Push(defers, "stopTask"), "client.Kill")
                          /\ Goto("Observe")
    /\ UNCHANGED <<variant, goos, enableLogs, hostEnv, callerEnv, panicking, running,
                   cleanupFn, childLive, dirExists, allocBuilt, taskDirBuilt, fsi,
                   builder, t, lmRunning, polls>>

\* dClient.StartTask(task).  With a nil error the handle may or may not be
\* nil.  Variant 1 (lines 88-92) discards the handle and returns from main.
\* Variant 2 (lines 266-277) keeps it, defers the StopTask closure and enters
\* the observation loop.
StartTask ==
    /\ pc = "StartTask"
    /\ \E res \in {"ok", "ok_nil_handle", "err"} :
          /\ calls' = Append(calls, Call("StartTask", res))
          /\ IF res = "err"
             THEN /\ LogFatal
                  /\ UNCHANGED <<th, taskRunning, defers>>
             ELSE /\ taskRunning' = TRUE
                  /\ IF variant = 1
                     THEN /\ Goto("Unwind")
                          /\ UNCHANGED <<th, defers>>
                     ELSE /\ th' = IF res = "ok" THEN "handle" ELSE "nil"
                          /\ defers' = Push(defers, "stopTask")
                          /\ Goto("Observe")
    /\ UNCHANGED <<variant, goos, enableLogs, hostEnv, callerEnv, panicking, running,
                   cleanupFn, childLive, dirExists, allocBuilt, taskDirBuilt, fsi,
                   builder, t, lmRunning, polls>>

\* One iteration of the loop of lines 279-283 with a handle: the state is
\* dumped, the goroutine sleeps a second, and the loop starts over.  The loop
\* has no condition, no break and no return.
ObservePoll ==
    /\ pc = "Observe"
    /\ th = "handle"
    /\ polls' = (polls + 1) % (MaxPolls + 1)
    /\ UNCHANGED <<variant, goos, enableLogs, hostEnv, callerEnv, pc, exitKind,
                   panicking, defers, running, cleanupFn, calls, childLive,
                   dirExists, allocBuilt, taskDirBuilt, fsi, builder, t,
                   lmRunning, th, taskRunning>>

\* Line 280 with a nil handle: th.State dereferences nil and panics; main's
\* deferred calls start to run.
ObservePanic ==
    /\ pc = "Observe"
    /\ th = "nil"
    /\ panicking' = TRUE
    /\ Goto("Unwind")
    /\ UNCHANGED <<variant, goos, enableLogs, hostEnv, callerEnv, defers, running,
                   cleanupFn, calls, childLive, dirExists, allocBuilt,
                   taskDirBuilt, fsi, builder, t, lmRunning, th, taskRunning, polls>>

----------------------------------------------------------------------------
(* The deferred calls, run last in first out when main returns or panics   *)

\* The closure of lines 271-277: StopTask; on error log.Fatal, else a sleep
\* of five seconds.
DeferredStopTask ==
    /\ pc = "Unwind"
    /\ running = <<>>
    /\ defers # <<>>
    /\ Top(defers) = "stopTask"
    /\ \E res \in {"ok", "err"} :
          /\ calls' = Append(calls, Call("StopTask", res))
          /\ IF res = "ok"
             THEN /\ taskRunning' = FALSE
                  /\ defers' = Pop(defers)
                  /\ Goto("Unwind")
             ELSE /\ UNCHANGED <<taskRunning, defers>>
                  /\ LogFatal
    /\ UNCHANGED <<variant, goos, enableLogs, hostEnv, callerEnv, panicking, running,
                   cleanupFn, childLive, dirExists, allocBuilt, taskDirBuilt, fsi,
                   builder, t, lmRunning, th, polls>>

\* A slip in lines 387-390: the directory destroyed before the monitor stops.
CleanupBody_destroyFirst(fn) ==
    IF fn = "withLogs" THEN <<"allocDir.Destroy", "lm.Stop">>
    ELSE <<"allocDir.Destroy">>

\* The statements of the closure MkAllocDir returned: lines 387-390 with
\* logs, lines 393-395 without.
CleanupBody(fn) ==
    IF fn = "withLogs" THEN <<"lm.Stop", "allocDir.Destroy">>
    ELSE <<"allocDir.Destroy">>

\* defer cleanup() (line 262) comes up: the closure is entered.
DeferredCleanup ==
    /\ pc = "Unwind"
    /\ running = <<>>
    /\ defers # <<>>
    /\ Top(defers) = "cleanup"
    /\ running' = CleanupBody(cleanupFn)
    /\ defers' = Pop(defers)
    /\ UNCHANGED <<variant, goos, enableLogs, hostEnv, callerEnv, pc, exitKind,
                   panicking, cleanupFn, calls, childLive, dirExists, allocBuilt,
                   taskDirBuilt, fsi, builder, t, lmRunning, th, taskRunning, polls>>

\* lm.Stop() (line 388)
LmStop ==
    /\ pc = "Unwind"
    /\ running # <<>>
    /\ Head(running) = "lm.Stop"
    /\ calls' = Append(calls, Call("lm.Stop", "ok"))
    /\ lmRunning' = FALSE
    /\ running' = Tail(running)
    /\ UNCHANGED <<variant, goos, enableLogs, hostEnv, callerEnv, pc, exitKind,
                   panicking, defers, cleanupFn, childLive, dirExists, allocBuilt,
                   taskDirBuilt, fsi, builder, t, th, taskRunning, polls>>

\* allocDir.Destroy() (lines 389, 394): the whole tree is removed.
AllocDirDestroy ==
    /\ pc = "Unwind"
    /\ running # <<>>
    /\ Head(running) = "allocDir.Destroy"
    /\ calls' = Append(calls, Call("allocDir.Destroy", "ok"))
    /\ dirExists' = FALSE
    /\ allocBuilt' = FALSE
    /\ taskDirBuilt' = "no"
    /\ running' = Tail(running)
    /\ UNCHANGED <<variant, goos, enableLogs, hostEnv, callerEnv, pc, exitKind,
                   panicking, defers, cleanupFn, childLive, fsi, builder, t,
                   lmRunning, th, taskRunning, polls>>

\* defer client.Kill() (lines 55, 222): the child process is terminated.
DeferredKill ==
    /\ pc = "Unwind"
    /\ running = <<>>
    /\ defers # <<>>
    /\ Top(defers) = "client.Kill"
    /\ calls' = Append(calls, Call("client.Kill", "ok"))
    /\ childLive' = FALSE
    /\ defers' = Pop(defers)
    /\ UNCHANGED <<variant, goos, enableLogs, hostEnv, callerEnv, pc, exitKind,
                   panicking, running, cleanupFn, dirExists, allocBuilt,
                   taskDirBuilt, fsi, builder, t, lmRunning, th, taskRunning, polls>>

\* Every deferred call has run: main has returned (exit status 0), or the
\* panic ends the process.
Exit ==
    /\ pc = "Unwind"
    /\ running = <<>>
    /\ defers = <<>>
    /\ pc' = "Exited"
    /\ exitKind' = IF panicking THEN "panic" ELSE "return"
    /\ UNCHANGED <<variant, goos, enableLogs, hostEnv, callerEnv, panicking, defers,
                   running, cleanupFn, calls, childLive, dirExists, allocBuilt,
                   taskDirBuilt, fsi, builder, t, lmRunning, th, taskRunning, polls>>

----------------------------------------------------------------------------

Next ==
    \/ NewClient
    \/ Client
    \/ Dispense
    \/ SetConfig
    \/ TempDir
    \/ AllocDirBuild
    \/ Capabilities
    \/ TaskDirBuild
    \/ BuildEnv
    \/ LogmonStart
    \/ LogmonSkip
    \/ Encode
    \/ StartTask
    \/ ObservePoll
    \/ ObservePanic
    \/ DeferredStopTask
    \/ DeferredCleanup
    \/ LmStop
    \/ AllocDirDestroy
    \/ DeferredKill
    \/ Exit

Spec == Init /\ [][Next]_vars

\* The main goroutine is the only one the model follows and the scheduler
\* keeps running it: whenever it has a step to take, it takes one.
FairSpec == Spec /\ WF_vars(Next)


----------------------------------------------------------------------------
(* Properties                                                              *)

\* Reading the history of calls.
Called(op) == \E i \in DOMAIN calls : calls[i].op = op
CalledWith(op, res) == \E i \in DOMAIN calls : calls[i] = Call(op, res)
Count(op) == Cardinality({i \in DOMAIN calls : calls[i].op = op})
\* The position of the first call of op, 0 when there is none.
First(op) == IF Called(op) THEN CHOOSE i \in DOMAIN calls :
                                  calls[i].op = op /\ \A j \in 1..(i - 1) : calls[j].op # op
             ELSE 0

\* The setup stages whose failure ends the run.
SetupOps == {"Client", "Dispense", "SetConfig", "TempDir", "AllocDir.Build",
             "Capabilities", "TaskDir.Build", "lm.Start"}
Failed(op) == \E i \in DOMAIN calls :
                 calls[i].op = op /\ calls[i].res \in {"err", "spawn_err", "rpc_err"}
Before(a, b) == Called(a) /\ Called(b) /\ First(a) < First(b)
TaskStarted == CalledWith("StartTask", "ok") \/ CalledWith("StartTask", "ok_nil_handle")

\* C1: when a stage of AllocDir.Build, Capabilities, TaskDir.Build, lm.Start
\* or StartTask fails, the run ends with every completed stage cleaned up in
\* reverse order: the log monitor stopped if it was started, then the
\* allocation directory destroyed if it was built.
C1_SetupFailureCleansUpInReverse ==
    (/\ pc = "Exited"
     /\ \E op \in {"AllocDir.Build", "Capabilities", "TaskDir.Build", "lm.Start",
                   "StartTask"} : Failed(op))
    => /\ CalledWith("lm.Start", "ok") => Called("lm.Stop")
       /\ CalledWith("AllocDir.Build", "ok") => Called("allocDir.Destroy")
       /\ (Called("lm.Stop") /\ Called("allocDir.Destroy"))
             => Before("lm.Stop", "allocDir.Destroy")

\* C2: every run that ends after the plugin session was launched has called
\* Kill() on the session and, if the log monitor was started, its Stop(); no
\* child process and no log-copy session is left running.
C2_EveryExitKillsAndStops ==
    (pc = "Exited" /\ CalledWith("Client", "ok"))
    => /\ Called("client.Kill")
       /\ CalledWith("lm.Start", "ok") => Called("lm.Stop")
       /\ ~childLive
       /\ ~lmRunning

\* C3: a run in which StartTask succeeded does not end without a StopTask
\* call, and when that StopTask fails the rest of the teardown is still
\* attempted: lm.Stop (if started), allocDir.Destroy (if built), client.Kill.
C3_StopTaskAlwaysAndTeardownAfterItsFailure ==
    (pc = "Exited" /\ TaskStarted)
    => /\ Called("StopTask")
       /\ CalledWith("StopTask", "err")
            => /\ Called("client.Kill")
               /\ CalledWith("lm.Start", "ok") => Called("lm.Stop")
               /\ CalledWith("AllocDir.Build", "ok") => Called("allocDir.Destroy")

\* C4: the observation loop never blocks teardown: a run that is in the
\* observation loop eventually leaves it and requests the stop of the task
\* (StopRequested, the state that Stopped and CleanedUp come after).
C4_ObservationLeadsToStopRequested ==
    (pc = "Observe") ~> Called("StopTask")

\* C5: SetConfig is never called twice, and whenever StartTask has been
\* called, SetConfig was called exactly once before it and returned no error.
C5_SetConfigOnceBeforeStartTask ==
    /\ Count("SetConfig") <= 1
    /\ Called("StartTask")
         => /\ Count("SetConfig") = 1
            /\ CalledWith("SetConfig", "ok")
            /\ Before("SetConfig", "StartTask")

C5_Witness == CalledWith("StartTask", "ok") /\ CalledWith("SetConfig", "ok")

\* C6: allocDir.Destroy() never runs while the log monitor is running: when a
\* monitor was started, lm.Stop() has returned before Destroy is called.
C6_StopBeforeDestroy ==
    Called("allocDir.Destroy")
    => /\ ~lmRunning
       /\ CalledWith("lm.Start", "ok") => Before("lm.Stop", "allocDir.Destroy")

C6_Witness ==
    /\ CalledWith("lm.Start", "ok")
    /\ Called("allocDir.Destroy")
    /\ ~dirExists

\* C7: when encoding the driver-specific configuration fails, StartTask is
\* never invoked.
C7_EncodeFailureBlocksStartTask ==
    CalledWith("Encode", "err") => ~Called("StartTask")

\* C8: when Client, Dispense, SetConfig or a step of MkAllocDir (TempDir,
\* AllocDir.Build, Capabilities, TaskDir.Build, lm.Start) returns an error,
\* StartTask is never invoked in that run.
C8_SetupErrorBlocksStartTask ==
    (\E op \in SetupOps : Failed(op))
    => (~Called("StartTask") /\ pc = "Exited" /\ exitKind = "fatal")

C8_Witness ==
    /\ pc = "Exited"
    /\ Failed("lm.Start")
    /\ CalledWith("TaskDir.Build", "ok")

\* C9: after MkAllocDir has succeeded, t.Env holds every caller-supplied key
\* with the caller's value, every derived key the caller did not supply with
\* the derived value, and no other key; with no caller mapping it equals the
\* derived mapping.
C9_EnvIsCallerExtendedWithDerived ==
    cleanupFn # "none"
    => LET derived == BuilderBuild(builder)
           caller  == callerEnv.m
           env     == t.Env.m
       IN  /\ ~t.Env.isNil
           /\ \A k \in DOMAIN caller : k \in DOMAIN env /\ env[k] = caller[k]
           /\ \A k \in (DOMAIN derived) \ (DOMAIN caller) :
                 k \in DOMAIN env /\ env[k] = derived[k]
           /\ DOMAIN env = (DOMAIN caller) \cup (DOMAIN derived)
           /\ callerEnv.isNil => env = derived

\* A caller key whose derived value (the interpolated one) is another value,
\* next to derived keys the caller did not supply.
C9_Witness ==
    /\ cleanupFn # "none"
    /\ ~callerEnv.isNil
    /\ "WORKDIR" \in DOMAIN callerEnv.m
    /\ BuilderBuild(builder)["WORKDIR"] # callerEnv.m["WORKDIR"]
    /\ t.Env.m["WORKDIR"] = "${NOMAD_TASK_DIR}"
    /\ "NOMAD_ALLOC_DIR" \in DOMAIN t.Env.m
    /\ "NOMAD_CPU_LIMIT" \in DOMAIN t.Env.m

\* C10: after SetEnvvars, the task-visible alloc, local and secrets paths are
\* the task directory's host paths exactly when the isolation mode is none,
\* and the container paths /alloc, /local, /secrets for chroot and image; the
\* client paths are the host paths in every mode.
C10_PathsFollowIsolationMode ==
    Called("SetEnvvars")
    => LET taskDir == NewTaskDir(t.AllocDir, t.Name)
           host == <<taskDir.SharedAllocDir, taskDir.LocalDir, taskDir.SecretsDir>>
           container == <<"/alloc", "/local", "/secrets">>
           seen == <<builder.allocDir, builder.localDir, builder.secretsDir>>
       IN  /\ fsi \in FSIsolations
           /\ (fsi = "none") => seen = host
           /\ (fsi \in {"chroot", "image"}) => seen = container
           /\ \A i \in 1..3 : (seen[i] = host[i]) <=> (fsi = "none")
           /\ builder.clientTaskRoot = taskDir.Dir
           /\ builder.clientSharedAllocDir = taskDir.SharedAllocDir
           /\ builder.clientTaskLocalDir = taskDir.LocalDir
           /\ builder.clientTaskSecretsDir = taskDir.SecretsDir
           /\ taskDir.LocalDir = "/tmp/nomad_driver_harness-1/nc-demo/local"

C10_Witness ==
    /\ Called("SetEnvvars")
    /\ fsi = "chroot"
    /\ builder.localDir = "/local"
    /\ builder.clientTaskLocalDir = "/tmp/nomad_driver_harness-1/nc-demo/local"

\* The names config.DefaultEnvDenylist lists, as the model holds them.
DeniedNames == {"CONSUL_TOKEN", "VAULT_TOKEN", "AWS_SECRET_ACCESS_KEY"}
DirKeys == {"NOMAD_ALLOC_DIR", "NOMAD_TASK_DIR", "NOMAD_SECRETS_DIR"}

\* C11: after SetEnvvars, for isolation none and chroot the builder holds
\* every host variable whose name is not in the denylist, with its value, and
\* no denylisted one; each of them is in the built environment, with the
\* host's value unless the task's own Env sets that name, and no denylisted
\* variable is.  For isolation image the builder holds no host variable at
\* all, and none reaches the built environment.
C11_HostEnvFiltered ==
    Called("SetEnvvars")
    => LET built == BuilderBuild(builder)
       IN  /\ fsi \in {"none", "chroot"}
                => /\ DOMAIN builder.hostEnv = (DOMAIN hostEnv) \ DeniedNames
                   /\ \A k \in DOMAIN builder.hostEnv : builder.hostEnv[k] = hostEnv[k]
                   /\ \A k \in (DOMAIN hostEnv) \ DeniedNames :
                         /\ k \in DOMAIN built
                         /\ k \notin DOMAIN callerEnv.m => built[k] = hostEnv[k]
           /\ fsi = "image"
                => /\ DOMAIN builder.hostEnv = {}
                   /\ \A k \in (DOMAIN hostEnv) \ (DOMAIN callerEnv.m) :
                         k \in DOMAIN built => (k \in DirKeys /\ built[k] # hostEnv[k])
           /\ \A k \in DeniedNames :
                 /\ k \notin DOMAIN built
                 /\ k \notin DOMAIN t.Env.m

\* A host with a denylisted and an allowed variable, under no isolation.
C11_Witness ==
    /\ Called("SetEnvvars")
    /\ fsi = "none"
    /\ "VAULT_TOKEN" \in DOMAIN hostEnv
    /\ "PATH" \in DOMAIN builder.hostEnv
    /\ "VAULT_TOKEN" \notin DOMAIN t.Env.m

\* C12: the allocation directory is destroyed exactly once: Destroy is never
\* called twice, and every run that has ended called Destroy exactly one time
\* on the allocation directory it built.
C12_DestroyExactlyOnce ==
    /\ Count("allocDir.Destroy") <= 1
    /\ (pc = "Exited" /\ CalledWith("AllocDir.Build", "ok"))
          => Count("allocDir.Destroy") = 1

\* C13: a log monitor is started only when enableLogs is set, the cleanup
\* closure calls lm.Stop() exactly when enableLogs was set, and every run that
\* has ended stopped a started monitor exactly one time.
C13_MonitorStoppedExactlyOnce ==
    /\ Called("lm.Start") => enableLogs
    /\ Count("lm.Stop") <= 1
    /\ (Called("allocDir.Destroy") /\ running = <<>>)
          => (Called("lm.Stop") <=> enableLogs)
    /\ (pc = "Exited" /\ CalledWith("lm.Start", "ok"))
          => Count("lm.Stop") = 1

\* Whether f is among the deferred calls still to run.
Deferred(f) == \E i \in DOMAIN defers : defers[i] = f

\* C14: StartTask is called at most once in a run, and StopTask is issued
\* (and its closure deferred) only after that StartTask call has returned
\* without error, so the two calls are never in flight together.
C14_StopTaskOnlyAfterStartTaskReturned ==
    /\ Count("StartTask") <= 1
    /\ Deferred("stopTask") => (TaskStarted /\ pc # "StartTask")
    /\ Called("StopTask")
         => /\ TaskStarted
            /\ Before("StartTask", "StopTask")
            /\ pc # "StartTask"

C14_Witness ==
    /\ CalledWith("StartTask", "ok_nil_handle")
    /\ CalledWith("StopTask", "ok")
    /\ ~taskRunning

\* C15: in the harness main (lines 195-285) the forward stages come in the
\* order of the lifecycle: when StartTask is invoked, the allocation directory
\* and the task directory have been built, the environment has been built and
\* merged into t.Env, and, with enableLogs, the log monitor has been started
\* successfully; each stage ran once, in this order, and none was skipped.
C15_ForwardStagesInOrder ==
    /\ (variant = 2 /\ pc = "StartTask")
          => /\ dirExists /\ allocBuilt /\ taskDirBuilt # "no"
             /\ enableLogs => lmRunning
    /\ (variant = 2 /\ Called("StartTask"))
          => /\ CalledWith("TempDir", "ok")
             /\ CalledWith("AllocDir.Build", "ok")
             /\ CalledWith("TaskDir.Build", "ok")
             /\ Called("SetEnvvars")
             /\ ~t.Env.isNil /\ DirKeys \subseteq DOMAIN t.Env.m
             /\ enableLogs => (CalledWith("lm.Start", "ok") /\ Before("SetEnvvars", "lm.Start")
                               /\ Before("lm.Start", "StartTask"))
             /\ ~enableLogs => ~Called("lm.Start")
             /\ Before("TempDir", "AllocDir.Build")
             /\ Before("AllocDir.Build", "Capabilities")
             /\ Before("Capabilities", "TaskDir.Build")
             /\ Before("TaskDir.Build", "SetEnvvars")
             /\ Before("SetEnvvars", "StartTask")
             /\ \A op \in {"TempDir", "AllocDir.Build", "Capabilities", "TaskDir.Build",
                           "SetEnvvars", "lm.Start"} : Count(op) <= 1

C15_Witness ==
    /\ variant = 2
    /\ enableLogs
    /\ CalledWith("lm.Start", "ok")
    /\ CalledWith("StartTask", "ok")
    /\ pc = "Observe"

\* C16: teardown runs StopTask, then lm.Stop, then allocDir.Destroy: whenever
\* the log monitor has been stopped or the allocation directory destroyed,
\* StopTask for the started task had returned before, and lm.Stop came before
\* Destroy.
C16_TeardownOrder ==
    /\ Called("lm.Stop")
         => (TaskStarted /\ CalledWith("StopTask", "ok") /\ Before("StopTask", "lm.Stop"))
    /\ Called("allocDir.Destroy")
         => (TaskStarted /\ CalledWith("StopTask", "ok")
             /\ Before("StopTask", "allocDir.Destroy"))
    /\ (Called("lm.Stop") /\ Called("allocDir.Destroy"))
         => Before("lm.Stop", "allocDir.Destroy")

C16_Witness ==
    /\ Before("StopTask", "lm.Stop")
    /\ Before("lm.Stop", "allocDir.Destroy")
    /\ ~taskRunning /\ ~lmRunning /\ ~dirExists

\* C17: the task directory is built as a chroot-populated tree exactly when
\* the driver reports FSIsolation chroot; for none and image it is built as
\* the minimal directory set, and for image the environment nevertheless
\* uses the container paths.
C17_ChrootOnlyForChrootIsolation ==
    /\ taskDirBuilt # "no"
         => /\ fsi \in FSIsolations
            /\ (taskDirBuilt = "chroot") <=> (fsi = "chroot")
            /\ (fsi \in {"none", "image"}) => taskDirBuilt = "minimal"
    /\ (taskDirBuilt # "no" /\ Called("SetEnvvars") /\ fsi = "image")
         => /\ taskDirBuilt = "minimal"
            /\ builder.allocDir = "/alloc"
            /\ builder.localDir = "/local"
            /\ builder.secretsDir = "/secrets"

C17_Witness ==
    /\ fsi = "image"
    /\ taskDirBuilt = "minimal"
    /\ Called("SetEnvvars")
    /\ builder.localDir = "/local"

\* The calls made over the plugin session, and the rest of the teardown.
SessionOps == {"Dispense", "SetConfig", "Capabilities", "StartTask", "StopTask"}

\* C18: client.Kill() is the last deferred call to run: when it has run, no
\* deferred call is left, StopTask had returned and the MkAllocDir cleanup
\* (lm.Stop, Destroy) had run before it wherever they were deferred, and no
\* RPC was or will be issued on the killed session.
C18_KillRunsLast ==
    Called("client.Kill")
    => /\ defers = <<>> /\ running = <<>>
       /\ ~childLive
       /\ pc \in {"Unwind", "Exited"}
       /\ \A i \in DOMAIN calls :
             calls[i].op \in SessionOps \cup {"lm.Stop", "allocDir.Destroy"}
                => i < First("client.Kill")
       /\ (variant = 2 /\ TaskStarted)
             => /\ Before("StopTask", "client.Kill")
                /\ Before("allocDir.Destroy", "client.Kill")
                /\ enableLogs => Before("lm.Stop", "client.Kill")

C18_Witness ==
    /\ variant = 2
    /\ enableLogs
    /\ Before("StopTask", "client.Kill")
    /\ Before("lm.Stop", "client.Kill")
    /\ Before("allocDir.Destroy", "client.Kill")
    /\ pc = "Exited"

\* The fallible steps of MkAllocDir, and whether one of them failed (the
\* error MkAllocDir returns).
MkAllocDirOps == {"TempDir", "AllocDir.Build", "Capabilities", "TaskDir.Build", "lm.Start"}
MkAllocDirErr == \E op \in MkAllocDirOps : Failed(op)
\* MkAllocDir has returned to line 258.
MkAllocDirReturned ==
    variant = 2 /\ (MkAllocDirErr \/ pc = "Encode" \/ Called("Encode"))

\* C19: MkAllocDir returns either a cleanup closure and no error, or no
\* closure and an error, never both and never neither; when it returns an
\* error no log monitor is running, lm.Start being its last fallible step.
C19_CleanupXorError ==
    /\ MkAllocDirReturned => ((cleanupFn # "none") <=> ~MkAllocDirErr)
    /\ ~MkAllocDirReturned => cleanupFn = "none"
    /\ cleanupFn = "withLogs" => (enableLogs /\ CalledWith("lm.Start", "ok"))
    /\ cleanupFn = "noLogs" => (~enableLogs /\ ~Called("lm.Start"))
    /\ MkAllocDirErr => (~lmRunning /\ ~CalledWith("lm.Start", "ok"))
    /\ Called("lm.Start")
         => \A i \in DOMAIN calls :
               calls[i].op \in MkAllocDirOps \cup {"SetEnvvars"} => i <= First("lm.Start")

C19_Witness ==
    /\ variant = 2
    /\ enableLogs
    /\ CalledWith("lm.Start", "err")
    /\ cleanupFn = "none"
    /\ ~lmRunning
    /\ exitKind = "fatal"

====
